---- MODULE Spec2Model ----
(***************************************************************************)
(* Flashcard controller of custom-assets-loader.                           *)
(*                                                                         *)
(* Two scripts implement it: src/src/copy-btn/js/script.js ("script") and  *)
(* the flashcard block of src/unnamed/part_000 ("part").  The variable     *)
(* impl says which one the page loaded; twinCards is what the cards of     *)
(* the same page are under the other script, given the same events and the *)
(* same draws; everything else is the DOM state the script of impl reads   *)
(* and writes.  Card order, mode classes and focus are written by code     *)
(* that reads neither ids nor aria-controls, the only attributes the two   *)
(* scripts treat differently, so they are kept once.                       *)
(*                                                                         *)
(* A page is a sequence of .fc-root elements (index 0, 1, ...).  A card is *)
(* named by its 1-based position in the root's initial markup, so the      *)
(* script's cardIndex is the card's name minus one.  Every card carries a  *)
(* .fc-toggle-answer-btn; its .fc-answer may be missing.                   *)
(*                                                                         *)
(* Styling is not part of the scripts: focus() is taken to succeed on any  *)
(* element that is attached to the document.                               *)
(***************************************************************************)
EXTENDS Integers, Sequences, FiniteSets, TLC

\* Largest number of cards of a single-root page.
MaxCards == 3
\* Number of .fc-root elements of a multi-root page (one card in each).
NumRoots == 2

VARIABLES
    impl,           \* "script" or "part": the file the page loaded
    sameGroup,      \* the radios of all roots form one radio group (no <form> around a root)
    hasContainer,   \* [root -> BOOLEAN] root.querySelector('.fc-card-container') is not null
    cards,          \* [root -> [card -> attributes of the card's toggle and answer]]
    originalOrder,  \* [root -> Seq(card)] the closure's const originalOrder
    children,       \* [root -> Seq(card)] the .fc-card elements of the container, in DOM order
    extraChild,     \* [root -> BOOLEAN] a focusable non-card child is still inside the container
    classList,      \* [root -> SUBSET ModeClasses] the mode classes of the container
    checked,        \* [root -> 0..2] index of the checked radio of the root, 0 when none
    activeElement,  \* document.activeElement
    shuffleIn,      \* argument arr of the last call of shuffleArray, <<>> before the first
    shuffleOut,     \* array the last call of shuffleArray returned
    lastEvent,      \* the event the page handled last
    twinCards       \* [root -> [card -> attributes]] the cards of the same page under the other script

vars == <<impl, sameGroup, hasContainer, cards, originalOrder, children,
          extraChild, classList, checked, activeElement, shuffleIn, shuffleOut,
          lastEvent, twinCards>>

----------------------------------------------------------------------------
(* Literals of the scripts *)

Impls == {"script", "part"}
\* The script that impl is not.
OtherImpl(im) == IF im = "script" THEN "part" ELSE "script"

StudyClass == "fc-game-mode-study"
QuizClass == "fc-game-mode-quiz"
ModeClasses == {StudyClass, QuizClass}

\* textContent the scripts write: '解答を非表示' (hide answer), '解答を表示' (show answer)
HideLabel == "hide answer"
ShowLabel == "show answer"

\* value attributes of the two input[name="fc-flashcard-mode"] radios of a root
RadioValues == <<"study", "quiz">>

\* An absent attribute (getAttribute returns null, id is '').
NoAttr == <<>>
\* `fc-answer-${rootIndex}-${cardIndex}`
UniqueId(rootIndex, cardIndex) == <<"fc-answer", rootIndex, cardIndex>>
\* An id the page author wrote on the answer of a card.
AuthorId(rootIndex, cardIndex) == <<"author", rootIndex, cardIndex>>
\* An aria-controls value that names no element of the page.
DanglingId == <<"dangling", 0, 0>>

Roots == DOMAIN hasContainer
CardsOf(r) == DOMAIN cards[r]

\* Elements that can hold focus.
Body == <<"body">>
Outside == <<"outside">>
Radio(r, i) == <<"radio", r, i>>
Btn(r, k) == <<"btn", r, k>>
Extra(r) == <<"extra", r>>

\* Events of the page: the three the script listens to, and a move of focus.
Loaded == <<"DOMContentLoaded">>
Change(r, i) == <<"change", r, i>>
Click(r, k) == <<"click", r, k>>
FocusMoved == <<"focus">>

----------------------------------------------------------------------------
(* shuffleArray *)

\* Variant of Swap: a[i] = a[j] without the exchange.
Swap_Overwrite(a, p, q) == [a EXCEPT ![p] = a[q]]

\* [a[i], a[j]] = [a[j], a[i]], on 1-based positions
Swap(a, p, q) == [a EXCEPT ![p] = a[q], ![q] = a[p]]

\* Variant of RandomChoices: j is drawn below i, as by Math.random() * i.
RandomChoices_BelowI(n) == {J \in [1 .. n - 1 -> 0 .. n - 1] : \A i \in 1 .. n - 1 : J[i] < i}

\* The values Math.floor(Math.random() * (i + 1)) can take for i = 1 .. n-1.
RandomChoices(n) == {J \in [1 .. n - 1 -> 0 .. n - 1] : \A i \in 1 .. n - 1 : J[i] <= i}

RECURSIVE ShuffleLoop(_, _, _)
\* for (let i = a.length - 1; i > 0; i--) { j = J[i]; swap a[i], a[j] }
ShuffleLoop(a, i, J) ==
    IF i > 0 THEN ShuffleLoop(Swap(a, i + 1, J[i] + 1), i - 1, J) ELSE a

\* const a = arr.slice(); loop; return a
shuffleArray(arr, J) == ShuffleLoop(arr, Len(arr) - 1, J)

----------------------------------------------------------------------------
(* getMode, setAnswerVisibility, applyMode *)

\* radios.find(r => r.checked): checked ? checked.value : 'study'
getMode(chk) == IF chk = 0 THEN "study" ELSE RadioValues[chk]

\* Variant of ClassToggle: force === false does not remove the class.
ClassToggle_AddOnly(cl, name, force) == IF force THEN cl \cup {name} ELSE cl

\* classList.toggle(name, force)
ClassToggle(cl, name, force) == IF force THEN cl \cup {name} ELSE cl \ {name}

\* Variant of setAnswerVisibility: the current visibility is inverted, whatever
\* visible says.
setAnswerVisibility_Invert(cs, answerCard, btnCard, visible) ==
    IF answerCard = 0 \/ btnCard = 0
    THEN cs
    ELSE LET shown == [cs EXCEPT ![answerCard].hidden = ~cs[answerCard].hidden]
         IN  [shown EXCEPT ![btnCard].ariaExpanded = IF cs[answerCard].hidden THEN "true" ELSE "false",
                           ![btnCard].textContent = IF cs[answerCard].hidden THEN HideLabel ELSE ShowLabel]

\* setAnswerVisibility(answerEl, btnEl, visible) on the cards cs of one root.
\* answerCard is the card that owns answerEl and btnCard the card that owns
\* btnEl; 0 stands for null.
setAnswerVisibility(cs, answerCard, btnCard, visible) ==
    IF answerCard = 0 \/ btnCard = 0
    THEN cs
    ELSE LET shown == [cs EXCEPT ![answerCard].hidden = ~visible]
         IN  [shown EXCEPT ![btnCard].ariaExpanded = IF visible THEN "true" ELSE "false",
                           ![btnCard].textContent = IF visible THEN HideLabel ELSE ShowLabel]

\* card.querySelector('#' + CSS.escape(id)) for card k: the only element with
\* an id inside a card is its answer.
CardQueryId(cs, k, id) == IF cs[k].hasAnswer /\ cs[k].id = id THEN k ELSE 0

\* card.querySelector('.fc-answer')
CardQueryAnswer(cs, k) == IF cs[k].hasAnswer THEN k ELSE 0

\* root.querySelector('#' + CSS.escape(id)): the first match in document
\* order, ch being the cards of the root in that order.
RootQueryId(cs, ch, id) ==
    LET hits == {p \in 1 .. Len(ch) : cs[ch[p]].hasAnswer /\ cs[ch[p]].id = id}
    IN  IF hits = {} THEN 0 ELSE ch[CHOOSE p \in hits : \A q \in hits : p <= q]

\* The answer applyMode resolves for card k: by aria-controls inside the card
\* when the attribute is set, else the card's .fc-answer.
ApplyModeAnswer(cs, k) ==
    IF cs[k].ariaControls # NoAttr
    THEN CardQueryId(cs, k, cs[k].ariaControls)
    ELSE CardQueryAnswer(cs, k)

RECURSIVE ApplyModeCards(_, _, _, _)
\* cards.forEach(card => setAnswerVisibility(answer, btn, mode === 'study')), from position p of ch
ApplyModeCards(cs, ch, p, mode) ==
    IF p > Len(ch)
    THEN cs
    ELSE ApplyModeCards(
             setAnswerVisibility(cs, ApplyModeAnswer(cs, ch[p]), ch[p], mode = "study"),
             ch, p + 1, mode)

\* The two classList.toggle calls of applyMode.
ApplyModeClasses(cl, mode) ==
    ClassToggle(ClassToggle(cl, StudyClass, mode = "study"), QuizClass, mode = "quiz")

----------------------------------------------------------------------------
(* updateCardDisplay *)

\* root.contains(e) once the container holds exactly the cards of newOrder.
RootContains(r, e, newOrder) ==
    \/ \E i \in DOMAIN RadioValues : e = Radio(r, i)
    \/ \E p \in 1 .. Len(newOrder) : e = Btn(r, newOrder[p])

\* Variant of FocusAfterReorder: the focus code runs after the container was
\* emptied and before newOrder is appended, when no card is inside the root.
FocusAfterReorder_BeforeAppend(r, active, newOrder) ==
    IF \E i \in DOMAIN RadioValues : active = Radio(r, i)
    THEN active
    ELSE IF active = Extra(r) \/ (\E p \in 1 .. Len(newOrder) : active = Btn(r, newOrder[p]))
         THEN Body
         ELSE active

\* Variant of FocusAfterReorder: the saved element is never focused again.
FocusAfterReorder_NoRestore(r, active, newOrder) ==
    IF Len(newOrder) > 0 THEN Btn(r, newOrder[1]) ELSE Body

\* document.activeElement when updateCardDisplay(newOrder) returns, active
\* being document.activeElement when it was called.
FocusAfterReorder(r, active, newOrder) ==
    IF RootContains(r, active, newOrder)
    THEN active
    ELSE IF Len(newOrder) > 0
         THEN Btn(r, newOrder[1])
         ELSE IF active = Extra(r) THEN Body ELSE active

----------------------------------------------------------------------------
(* click handler *)

\* btn.nextElementSibling if it carries .fc-answer, else null
SiblingAnswer(cs, k) == IF cs[k].hasAnswer /\ cs[k].sibling THEN k ELSE 0

\* The answer the click handler resolves for the toggle of card k.
ClickAnswer(im, cs, ch, k) ==
    LET id == cs[k].ariaControls
        byId == IF id = NoAttr THEN 0
                ELSE IF im = "script" THEN RootQueryId(cs, ch, id)
                     ELSE CardQueryId(cs, k, id)
    IN  IF byId # 0 THEN byId ELSE SiblingAnswer(cs, k)

\* Variant of ClickHandler: the answer is always shown, never hidden again.
ClickHandler_RevealOnly(im, cs, ch, cl, k) ==
    IF QuizClass \notin cl
    THEN cs
    ELSE LET answer == ClickAnswer(im, cs, ch, k)
         IN  IF answer = 0 THEN cs
             ELSE setAnswerVisibility(cs, answer, k, TRUE)

\* The cards of the root after the click handler ran for the toggle of card k.
ClickHandler(im, cs, ch, cl, k) ==
    IF QuizClass \notin cl
    THEN cs
    ELSE LET answer == ClickAnswer(im, cs, ch, k)
         IN  IF answer = 0 THEN cs
             ELSE setAnswerVisibility(cs, answer, k, cs[answer].hidden)

----------------------------------------------------------------------------
(* The page the script is loaded on *)

\* How the author wrote one card:
\*   plain          answer right after the toggle, no id, no aria-controls
\*   linked         answer elsewhere in the card, id and aria-controls written by the author
\*   apart          answer elsewhere in the card, no id, no aria-controls
\*   dangling       answer right after the toggle, aria-controls names no element
\*   danglingApart  answer elsewhere in the card, aria-controls names no element
\*   noAnswer       the card has no .fc-answer
CardKinds == {"plain", "linked", "apart", "dangling", "danglingApart", "noAnswer"}

\* The hidden / aria-expanded / label an author may have written on every card:
\* nothing but the label, or a collapsed card.
RawAttributes ==
    { [hidden |-> FALSE, ariaExpanded |-> "", textContent |-> ShowLabel],
      [hidden |-> TRUE, ariaExpanded |-> "false", textContent |-> ShowLabel] }

\* The card with cardIndex ci of root ri as the author wrote it.
CardMarkup(kind, raw, ri, ci) ==
    [ hasAnswer    |-> kind # "noAnswer",
      sibling      |-> kind \in {"plain", "dangling"},
      id           |-> IF kind = "linked" THEN AuthorId(ri, ci) ELSE NoAttr,
      ariaControls |-> IF kind = "linked" THEN AuthorId(ri, ci)
                       ELSE IF kind \in {"dangling", "danglingApart"} THEN DanglingId
                       ELSE NoAttr,
      hidden       |-> raw.hidden,
      ariaExpanded |-> raw.ariaExpanded,
      textContent  |-> raw.textContent ]

\* Body of the originalOrder.forEach of script.js for one card (btn is never null here).
AssignId(c, rootIndex, cardIndex) ==
    IF c.hasAnswer
    THEN LET withId == IF c.id = NoAttr THEN [c EXCEPT !.id = UniqueId(rootIndex, cardIndex)] ELSE c
         IN  IF withId.ariaControls = NoAttr
             THEN [withId EXCEPT !.ariaControls = withId.id]
             ELSE withId
    ELSE c

\* The cards of a root when the id loop is done; part_000 has no such loop.
LinkCards(im, cs, rootIndex) ==
    IF im = "script" THEN [k \in DOMAIN cs |-> AssignId(cs[k], rootIndex, k - 1)] ELSE cs

\* Array.from(container.querySelectorAll('.fc-card')) on the initial markup
InitialOrder(n) == [k \in 1 .. n |-> k]

\* A root as written: kinds[k] is the kind of its k-th card.
RootMarkups(kindSeqs, extras, containers) ==
    [ kinds : kindSeqs, raw : RawAttributes, extra : extras,
      hasContainer : containers, checked : 0 .. Len(RadioValues) ]

\* Up to n plain cards.
PlainSeqs(n) == UNION {[1 .. m -> {"plain"}] : m \in 0 .. n}

\* A card of any kind, alone or followed by a plain card.
OddSeqs == UNION {{<<kind>>, <<kind, "plain">>} : kind \in CardKinds}

\* One root with a container and possibly a non-card child inside it: up to
\* MaxCards plain cards, or a card of any kind with at most one plain card.
SingleRootPages ==
    { [roots |-> [r \in {0} |-> rm], sameGroup |-> TRUE] :
        rm \in RootMarkups(PlainSeqs(MaxCards) \cup OddSeqs, BOOLEAN, {TRUE}) }

\* NumRoots roots of one plain card each, any of them possibly without a
\* container.  With one radio group for the page at most one radio is checked.
MultiRootPages ==
    { pg \in [ roots : [0 .. NumRoots - 1 ->
                          RootMarkups({<<"plain">>}, {FALSE}, BOOLEAN)],
               sameGroup : BOOLEAN ] :
        /\ \A r \in DOMAIN pg.roots : pg.roots[r].raw = pg.roots[0].raw
        /\ pg.sameGroup =>
             Cardinality({r \in DOMAIN pg.roots : pg.roots[r].checked # 0}) <= 1 }

Pages == SingleRootPages \cup MultiRootPages

\* The cards of root ri after the id loop, before the first applyMode.
LoadedCards(im, rm, ri) ==
    LinkCards(im, [k \in 1 .. Len(rm.kinds) |-> CardMarkup(rm.kinds[k], rm.raw, ri, k - 1)], ri)

----------------------------------------------------------------------------
(* State after DOMContentLoaded *)

Init ==
    \E im \in Impls, pg \in Pages :
        /\ impl = im
        /\ sameGroup = pg.sameGroup
        /\ hasContainer = [r \in DOMAIN pg.roots |-> pg.roots[r].hasContainer]
        /\ originalOrder = [r \in DOMAIN pg.roots |->
               IF pg.roots[r].hasContainer
               THEN InitialOrder(Len(pg.roots[r].kinds)) ELSE <<>>]
        /\ children = originalOrder
        /\ extraChild = [r \in DOMAIN pg.roots |->
               pg.roots[r].hasContainer /\ pg.roots[r].extra]
        /\ checked = [r \in DOMAIN pg.roots |-> pg.roots[r].checked]
        \* applyMode(getMode()) of every root that has a container
        /\ classList = [r \in DOMAIN pg.roots |->
               IF pg.roots[r].hasContainer
               THEN ApplyModeClasses({}, getMode(pg.roots[r].checked)) ELSE {}]
        /\ cards = [r \in DOMAIN pg.roots |->
               IF pg.roots[r].hasContainer
               THEN ApplyModeCards(LoadedCards(im, pg.roots[r], r),
                                   InitialOrder(Len(pg.roots[r].kinds)), 1,
                                   getMode(pg.roots[r].checked))
               ELSE <<>>]
        /\ activeElement = Body
        /\ shuffleIn = <<>>
        /\ shuffleOut = <<>>
        /\ lastEvent = Loaded
        \* the same page loaded by the other script
        /\ twinCards = [r \in DOMAIN pg.roots |->
               IF pg.roots[r].hasContainer
               THEN ApplyModeCards(LoadedCards(OtherImpl(im), pg.roots[r], r),
                                   InitialOrder(Len(pg.roots[r].kinds)), 1,
                                   getMode(pg.roots[r].checked))
               ELSE <<>>]

----------------------------------------------------------------------------
(* Events *)

\* Variant of ArgumentAfterShuffle: the loop swaps the elements of arr itself.
ArgumentAfterShuffle_InPlace(arr, J) == ShuffleLoop(arr, Len(arr) - 1, J)

\* The array passed to shuffleArray when the call has returned: the loop
\* works on a = arr.slice(), so arr is as it was.
ArgumentAfterShuffle(arr, J) == arr

\* Math.random is called only when the mode read is 'quiz'.
Draws(mode, n) == IF mode = "quiz" THEN RandomChoices(n) ELSE {<<>>}

\* Variant of ShuffleArgument: the order on display is shuffled.
ShuffleArgument_Displayed(r) == children[r]

\* The array the change handler of root r passes to shuffleArray.
ShuffleArgument(r) == originalOrder[r]

\* Variant of NewOrder: 'study' keeps the order on display.
NewOrder_KeepDisplayed(r, mode, J) ==
    IF mode = "quiz" THEN shuffleArray(ShuffleArgument(r), J) ELSE children[r]

\* mode === 'quiz' ? shuffleArray(originalOrder) : originalOrder
NewOrder(r, mode, J) ==
    IF mode = "quiz" THEN shuffleArray(ShuffleArgument(r), J) ELSE originalOrder[r]

\* Variant of Listening: the listeners are registered before the container is
\* looked for.
Listening_Always(r) == TRUE

\* Root r registered its change and click listeners: the early return for a
\* missing container comes before every addEventListener.
Listening(r) == hasContainer[r]

\* Variant of updateCardDisplay: the container is not emptied and only the
\* cards it does not hold yet are appended.
updateCardDisplay_AppendMissing(current, newOrder) ==
    current \o SelectSeq(newOrder, LAMBDA k : \A p \in DOMAIN current : current[p] # k)

\* The cards in the container after container.innerHTML = '' and
\* newOrder.forEach(el => container.appendChild(el)), current being the cards
\* it held before.
updateCardDisplay(current, newOrder) == newOrder

\* The user selects radio i of root r and its change event is handled.  The
\* browser unchecks the other radios of the group before the event.  A root
\* without container registered no listener.
ModeChange(r, i) ==
    /\ checked' = IF sameGroup
                  THEN [q \in Roots |-> IF q = r THEN i ELSE 0]
                  ELSE [checked EXCEPT ![r] = i]
    /\ IF Listening(r)
       THEN \E J \in Draws(getMode(checked'[r]), Len(originalOrder[r])) :
              LET mode == getMode(checked'[r])
                  newOrder == NewOrder(r, mode, J)
              IN  /\ children' = [children EXCEPT ![r] = updateCardDisplay(@, newOrder)]
                  /\ extraChild' = [extraChild EXCEPT ![r] = FALSE]
                  /\ activeElement' = FocusAfterReorder(r, activeElement, newOrder)
                  /\ classList' = [classList EXCEPT ![r] = ApplyModeClasses(@, mode)]
                  /\ cards' = [cards EXCEPT ![r] = ApplyModeCards(@, newOrder, 1, mode)]
                  /\ shuffleIn' = IF mode = "quiz" THEN ShuffleArgument(r) ELSE shuffleIn
                  /\ shuffleOut' = IF mode = "quiz" THEN newOrder ELSE shuffleOut
                  /\ originalOrder' = IF mode = "quiz"
                                      THEN [originalOrder EXCEPT ![r] = ArgumentAfterShuffle(@, J)]
                                      ELSE originalOrder
                  /\ twinCards' = [twinCards EXCEPT ![r] = ApplyModeCards(@, newOrder, 1, mode)]
                  /\ lastEvent' = Change(r, i)
       ELSE /\ lastEvent' = Change(r, i)
            /\ UNCHANGED <<children, extraChild, activeElement, classList, cards,
                           shuffleIn, shuffleOut, originalOrder, twinCards>>
    /\ UNCHANGED <<impl, sameGroup, hasContainer>>

\* A click on the toggle of card k of root r reaches the root's click listener.
ToggleClick(r, k) ==
    /\ Listening(r)
    /\ cards' = [cards EXCEPT ![r] = ClickHandler(impl, @, children[r], classList[r], k)]
    /\ twinCards' = [twinCards EXCEPT ![r] = ClickHandler(OtherImpl(impl), @, children[r],
                                                          classList[r], k)]
    /\ lastEvent' = Click(r, k)
    /\ UNCHANGED <<impl, sameGroup, hasContainer, originalOrder, children,
                   extraChild, classList, checked, activeElement, shuffleIn, shuffleOut>>

\* Elements of the page the user can move focus to (Body: focus is dropped).
Focusable ==
    {Body, Outside}
    \cup {Radio(r, i) : r \in Roots, i \in DOMAIN RadioValues}
    \cup UNION {{Btn(r, children[r][p]) : p \in 1 .. Len(children[r])} : r \in Roots}
    \cup {Extra(r) : r \in {q \in Roots : extraChild[q]}}

\* The user moves focus (Tab, click) to e; no listener of the script runs.
UserFocus(e) ==
    /\ e # activeElement
    /\ activeElement' = e
    /\ lastEvent' = FocusMoved
    /\ UNCHANGED <<impl, sameGroup, hasContainer, cards, originalOrder, children,
                   extraChild, classList, checked, shuffleIn, shuffleOut, twinCards>>

Next ==
    \/ \E r \in Roots, i \in DOMAIN RadioValues : ModeChange(r, i)
    \/ \E r \in Roots : \E k \in CardsOf(r) : ToggleClick(r, k)
    \/ \E e \in Focusable : UserFocus(e)

Spec == Init /\ [][Next]_vars

----------------------------------------------------------------------------
(* Properties *)

Range(s) == {s[p] : p \in DOMAIN s}
Occurrences(s, x) == Cardinality({p \in DOMAIN s : s[p] = x})

\* s and t hold the same elements, each the same number of times.
IsPermutationOf(s, t) ==
    /\ Len(s) = Len(t)
    /\ \A x \in Range(s) \cup Range(t) : Occurrences(s, x) = Occurrences(t, x)

\* The mode a handled change event read: the value of the radio it checked.
IsChangeTo(ev, r, mode) ==
    \E i \in DOMAIN RadioValues : ev = Change(r, i) /\ RadioValues[i] = mode

\* C1: after initialization and after any events, the container of every
\* initialized root holds every card of originalOrder exactly once and no
\* other card.
C1_CardsPreserved ==
    \A r \in Roots :
        hasContainer[r] =>
            /\ IsPermutationOf(children[r], originalOrder[r])
            /\ \A k \in Range(originalOrder[r]) : Occurrences(children[r], k) = 1
            /\ Range(children[r]) \subseteq Range(originalOrder[r])

\* C1 witness: a toggle click was handled on a reordered container of several
\* cards and left an answer revealed.
C1_Witness ==
    \E r \in Roots :
        /\ Len(children[r]) >= 3
        /\ children[r] # originalOrder[r]
        /\ \E k \in CardsOf(r) : lastEvent = Click(r, k) /\ ~cards[r][k].hidden

\* C3: when a change handler that read mode 'study' has completed, the
\* container shows originalOrder exactly, whatever came before.
C3_StudyRestoresOrder ==
    \A r \in Roots :
        hasContainer[r] /\ IsChangeTo(lastEvent, r, "study") =>
            children[r] = originalOrder[r]

\* C3 witness: the study handler has completed on a root whose last quiz
\* shuffle had displayed another order than originalOrder.
C3_Witness ==
    \E r \in Roots :
        /\ hasContainer[r] /\ IsChangeTo(lastEvent, r, "study")
        /\ Len(originalOrder[r]) >= 3
        /\ shuffleIn = originalOrder[r]
        /\ shuffleOut # originalOrder[r]

\* Arrays of up to MaxCards elements in which elements repeat.
RepeatingArrays == UNION {[1 .. m -> {"a", "b"}] : m \in 0 .. MaxCards}

\* C4: shuffleArray returns a permutation of its argument (of the array the
\* handler passed and, evaluated once per page load, of every array of
\* RepeatingArrays under every draw), and the order on display when a change
\* handler that read 'quiz' has completed is that result, computed from
\* originalOrder.
C4_ShufflePermutes ==
    /\ IsPermutationOf(shuffleOut, shuffleIn)
    /\ lastEvent = Loaded =>
         \A arr \in RepeatingArrays : \A J \in RandomChoices(Len(arr)) :
             IsPermutationOf(shuffleArray(arr, J), arr)
    /\ \A r \in Roots :
         hasContainer[r] /\ IsChangeTo(lastEvent, r, "quiz") =>
             /\ shuffleIn = originalOrder[r]
             /\ children[r] = shuffleOut
             /\ IsPermutationOf(children[r], originalOrder[r])

\* C4 witness: a quiz handler has completed and displays an order that moved
\* every card of a three-card list.
C4_Witness ==
    \E r \in Roots :
        /\ hasContainer[r] /\ IsChangeTo(lastEvent, r, "quiz")
        /\ Len(originalOrder[r]) >= 3
        /\ \A p \in DOMAIN children[r] : children[r][p] # originalOrder[r][p]

\* The toggle of card k of root r carries a controls link that names the
\* card's own answer.
LinkResolves(r, k) ==
    /\ cards[r][k].hasAnswer
    /\ cards[r][k].ariaControls # NoAttr
    /\ cards[r][k].ariaControls = cards[r][k].id

\* The answer of card k of root r is the next sibling of its toggle.
SiblingResolves(r, k) == cards[r][k].hasAnswer /\ cards[r][k].sibling

\* The documented resolution (controls link, then next sibling) finds the
\* answer of card k of root r.
Resolvable(r, k) == LinkResolves(r, k) \/ SiblingResolves(r, k)

\* hidden, aria-expanded and label of card c agree.
TripleCoherent(c) ==
    /\ c.hidden <=> c.ariaExpanded = "false"
    /\ c.ariaExpanded = "false" <=> c.textContent = ShowLabel
    /\ ~c.hidden <=> c.ariaExpanded = "true"
    /\ c.ariaExpanded = "true" <=> c.textContent = HideLabel

\* C2: in every state after initialization, for every card (stated here for
\* the cards whose answer the documented resolution finds) the answer is
\* hidden iff aria-expanded is "false" iff the label is the show text, and
\* shown iff aria-expanded is "true" iff the label is the hide text.
C2_TripleCoherent ==
    \A r \in Roots :
        hasContainer[r] =>
            \A k \in CardsOf(r) : Resolvable(r, k) => TripleCoherent(cards[r][k])

\* An element that stays attached to the document when root r is reordered:
\* anything that has focus except a non-card child of r's container.
StaysInDocument(e, r) == e # Body /\ e # Extra(r)

InRoot(e, r) ==
    \/ \E i \in DOMAIN RadioValues : e = Radio(r, i)
    \/ \E k \in CardsOf(r) : e = Btn(r, k)

C6_ModeSetsVisibility ==
    \A r \in Roots :
        hasContainer[r] =>
            \A mode \in Range(RadioValues) :
                \/ lastEvent = Loaded /\ mode = getMode(checked[r])
                \/ IsChangeTo(lastEvent, r, mode)
                => \A k \in Range(children[r]) :
                       Resolvable(r, k) => (cards[r][k].hidden <=> mode = "quiz")

\* The click on the toggle of card k of root r left everything but that card alone.
ClickFrame(r, k) ==
    /\ \A k2 \in CardsOf(r) \ {k} : cards'[r][k2] = cards[r][k2]
    /\ \A q \in Roots \ {r} : cards'[q] = cards[q]
    /\ children' = children
    /\ classList' = classList

C8_StudyAllVisible ==
    \A r \in Roots :
        hasContainer[r] /\ StudyClass \in classList[r] =>
            \A k \in Range(children[r]) : Resolvable(r, k) => ~cards[r][k].hidden

ClassOf(mode) == IF mode = "quiz" THEN QuizClass ELSE StudyClass

\* C10: between event handlers the mode on display in every root (stated
\* here for pages on which every root has its container) is the mode of the
\* root's checked radio, study when none is checked.
C10_DisplayedIsSelected ==
    (\A q \in Roots : hasContainer[q]) =>
        \A r \in Roots : classList[r] = {ClassOf(getMode(checked[r]))}

\* applyMode(mode) on root r as it stands: the cards and the mode classes it leaves.
AppliedCards(r, mode) == ApplyModeCards(cards[r], children[r], 1, mode)
AppliedClasses(r, mode) == ApplyModeClasses(classList[r], mode)

\* C11: applying a mode twice gives what applying it once gives.  In every
\* state and for both modes, applyMode(m) run on the result of applyMode(m)
\* changes no card's hidden, aria-expanded or label and no mode class; and the
\* state a load or a change handler left is unchanged by one more applyMode
\* of the mode it applied.
C11_ApplyModeIdempotent ==
    \A r \in Roots :
        hasContainer[r] =>
            \A mode \in Range(RadioValues) :
                /\ ApplyModeCards(AppliedCards(r, mode), children[r], 1, mode)
                       = AppliedCards(r, mode)
                /\ ApplyModeClasses(AppliedClasses(r, mode), mode) = AppliedClasses(r, mode)
                /\ \/ lastEvent = Loaded /\ mode = getMode(checked[r])
                   \/ IsChangeTo(lastEvent, r, mode)
                   => AppliedCards(r, mode) = cards[r] /\ AppliedClasses(r, mode) = classList[r]

\* C11 witness: a click has revealed one answer of a quiz root with several
\* cards, so that applying study and applying quiz both change cards here.
C11_Witness ==
    \E r \in Roots : \E k \in CardsOf(r) :
        /\ lastEvent = Click(r, k)
        /\ Len(children[r]) >= 2
        /\ classList[r] = {QuizClass}
        /\ ~cards[r][k].hidden
        /\ AppliedCards(r, "quiz") # cards[r]
        /\ AppliedCards(r, "study") # cards[r]
        /\ AppliedClasses(r, "study") # classList[r]

\* The event ev was handled by a listener of root a.
HandledBy(ev, a) ==
    \/ \E i \in DOMAIN RadioValues : ev = Change(a, i)
    \/ \E k \in CardsOf(a) : ev = Click(a, k)

\* C12: on a page with several initialized roots, a mode change or toggle
\* click handled by root a leaves root b as it was: b's card order, b's mode
\* class, hidden / aria-expanded / label of each of b's cards, and the checked
\* radio that b's getMode reads.
C12_OtherWidgetUntouched ==
    [][\A a \in Roots, b \in Roots :
         a # b /\ hasContainer[a] /\ hasContainer[b] /\ HandledBy(lastEvent', a)
         => /\ children'[b] = children[b]
            /\ classList'[b] = classList[b]
            /\ cards'[b] = cards[b]
            /\ checked'[b] = checked[b]]_vars

\* The card whose answer the documented resolution finds for the toggle of
\* card k of root r: the answer its controls link names, else the next
\* sibling of the toggle if it is an answer, else none (0).
DocumentedAnswer(r, k) ==
    IF LinkResolves(r, k) \/ SiblingResolves(r, k) THEN k ELSE 0

\* Card c shows (visible) or hides its answer, with aria-expanded and label to match.
ShowsAs(c, visible) ==
    /\ c.hidden = ~visible
    /\ c.ariaExpanded = (IF visible THEN "true" ELSE "false")
    /\ c.textContent = (IF visible THEN HideLabel ELSE ShowLabel)

\* C13: whenever a card's visibility is set, the answer is resolved by the
\* controls link, else as the toggle's next sibling, else the operation
\* changes nothing of the card.  For the applyMode of a change handler: every
\* card on display whose answer is so resolved shows it in study and hides it
\* in quiz, and a card whose answer is not resolved is left as it was.  For a
\* toggle click in quiz mode: a card whose answer is so resolved has it
\* flipped, and a card whose answer is not resolved is left as it was.
C13_ResolutionOrder ==
    [][\A r \in Roots :
         hasContainer[r] =>
            /\ \A mode \in Range(RadioValues) :
                 IsChangeTo(lastEvent', r, mode) =>
                    \A k \in Range(children'[r]) :
                        IF DocumentedAnswer(r, k) # 0
                        THEN ShowsAs(cards'[r][k], mode = "study")
                        ELSE cards'[r][k] = cards[r][k]
            /\ \A k \in CardsOf(r) :
                 lastEvent' = Click(r, k) /\ QuizClass \in classList[r] =>
                    IF DocumentedAnswer(r, k) # 0
                    THEN ShowsAs(cards'[r][k], cards[r][k].hidden)
                    ELSE cards'[r][k] = cards[r][k]]_vars

\* Every card of root q shows its answer in study and hides it in quiz.
AllShowAs(q, cs, mode) == \A k \in DOMAIN cs : ShowsAs(cs[k], mode = "study")

\* C14: on a page where some root has no card container, that root alone is
\* left out: a change event of its radios runs no handler (no card, order,
\* class or focus changes), while every root that has its container, listed
\* before or after it, was initialized on load (mode class and visibility of
\* the checked mode) and handles its change events (order, class, visibility)
\* and its toggle clicks (flip in quiz mode).
C14_AbortIsLocal ==
    [][(\E r \in Roots : ~hasContainer[r]) =>
         /\ \A r \in Roots :
              ~hasContainer[r] /\ (\E i \in DOMAIN RadioValues : lastEvent' = Change(r, i))
              => UNCHANGED <<cards, children, extraChild, classList, activeElement>>
         /\ \A q \in Roots :
              hasContainer[q] =>
                 /\ lastEvent = Loaded =>
                        /\ classList[q] = {ClassOf(getMode(checked[q]))}
                        /\ children[q] = originalOrder[q]
                        /\ AllShowAs(q, cards[q], getMode(checked[q]))
                 /\ \A mode \in Range(RadioValues) :
                        IsChangeTo(lastEvent', q, mode) =>
                           /\ classList'[q] = {ClassOf(mode)}
                           /\ IsPermutationOf(children'[q], originalOrder[q])
                           /\ mode = "study" => children'[q] = originalOrder[q]
                           /\ AllShowAs(q, cards'[q], mode)
                 /\ \A k \in CardsOf(q) :
                        lastEvent' = Click(q, k) /\ QuizClass \in classList[q] =>
                           ShowsAs(cards'[q][k], cards[q][k].hidden)]_vars

\* C14 witness: a root listed after a root without container is in quiz mode
\* and the click just handled revealed the answer of its card.
C14_Witness ==
    \E r \in Roots, q \in Roots :
        /\ r < q /\ ~hasContainer[r] /\ hasContainer[q]
        /\ classList[q] = {QuizClass}
        /\ \E k \in CardsOf(q) : lastEvent = Click(q, k) /\ ShowsAs(cards[q][k], TRUE)

\* The answers of the page that carry id, as <<root, card>> pairs.
AnswersWithId(id) ==
    {rk \in UNION {{<<r, k>> : k \in CardsOf(r)} : r \in Roots} :
        cards[rk[1]][rk[2]].hasAnswer /\ cards[rk[1]][rk[2]].id = id}

\* C15: after initialization every card with a toggle and an answer has a
\* controls link on its toggle, the link names the answer of the same card
\* and no other element of the page, and no mode change, reorder or toggle
\* click changes an answer id or a controls link.
C15_LinksUniqueAndStable ==
    [][\A r \in Roots : \A k \in CardsOf(r) :
         cards[r][k].hasAnswer =>
            /\ cards[r][k].ariaControls # NoAttr
            /\ AnswersWithId(cards[r][k].ariaControls) = {<<r, k>>}
            /\ cards'[r][k].id = cards[r][k].id
            /\ cards'[r][k].ariaControls = cards[r][k].ariaControls]_vars

\* C16: every handled change event of root r runs the whole pipeline, each
\* stage on the result of the one before: the mode read is the value of the
\* radio just checked; the target order is originalOrder for study and the
\* shuffle of originalOrder for quiz; the container holds that order and
\* nothing else; focus is restored or redirected with respect to the new
\* order; then the classes and the visibility of that mode are applied to
\* the cards as the previous event left them, no click having come between.
\* This holds for a first and for every later change event.
C16_PipelineOrder ==
    [][\A r \in Roots : \A i \in DOMAIN RadioValues :
         hasContainer[r] /\ lastEvent' = Change(r, i) =>
            LET mode == RadioValues[i]
            IN  /\ getMode(checked'[r]) = mode
                /\ mode = "study" => children'[r] = originalOrder[r]
                /\ mode = "quiz" =>
                       /\ shuffleIn' = originalOrder[r]
                       /\ shuffleOut' = children'[r]
                       /\ IsPermutationOf(children'[r], originalOrder[r])
                /\ ~extraChild'[r]
                /\ InRoot(activeElement, r) => activeElement' = activeElement
                /\ ~InRoot(activeElement, r) /\ Len(children'[r]) > 0 =>
                       activeElement' = Btn(r, children'[r][1])
                /\ classList'[r] = {ClassOf(mode)}
                /\ cards'[r] = ApplyModeCards(cards[r], children'[r], 1, mode)]_vars

\* C16 witness: a quiz change handler has completed on three cards: the
\* order is a new one, focus was redirected to the first toggle of that
\* order, which is not the first card of originalOrder, and every card is
\* hidden.
C16_Witness ==
    \E r \in Roots :
        /\ hasContainer[r] /\ IsChangeTo(lastEvent, r, "quiz")
        /\ Len(children[r]) >= 3
        /\ children[r][1] # originalOrder[r][1]
        /\ activeElement = Btn(r, children[r][1])
        /\ classList[r] = {QuizClass}
        /\ AllShowAs(r, cards[r], "quiz")

\* The array the change handler that just read mode passed to
\* updateCardDisplay: what shuffleArray returned, or originalOrder.
PassedOrder(r, mode) == IF mode = "quiz" THEN shuffleOut' ELSE originalOrder[r]

\* C17: after the reorder of every change handler the children of the
\* container are the sequence newOrder: the same cards at the same positions,
\* each once, and nothing else, whichever cards and other children the
\* container held before.
C17_ChildrenAreNewOrder ==
    [][\A r \in Roots : \A mode \in Range(RadioValues) :
         hasContainer[r] /\ IsChangeTo(lastEvent', r, mode) =>
            /\ Len(children'[r]) = Len(PassedOrder(r, mode))
            /\ \A p \in DOMAIN children'[r] : children'[r][p] = PassedOrder(r, mode)[p]
            /\ \A k \in Range(children'[r]) : Occurrences(children'[r], k) = 1
            /\ ~extraChild'[r]]_vars

\* C17 witness: a study change handler has completed on a container that
\* displayed three cards in a shuffled order: the children are originalOrder
\* again.
C17_Witness ==
    \E r \in Roots :
        /\ hasContainer[r] /\ IsChangeTo(lastEvent, r, "study")
        /\ Len(children[r]) >= 3
        /\ shuffleOut # originalOrder[r] /\ shuffleIn = originalOrder[r]
        /\ children[r] = originalOrder[r]
        /\ ~extraChild[r]

\* C18: originalOrder of every root is the card list read at initialization
\* and no event changes it: a change handler that shuffles leaves the array it
\* passed to shuffleArray as it was, and clicks, study changes and moves of
\* focus do not touch it.
C18_OriginalOrderFixed ==
    [][/\ originalOrder' = originalOrder
       /\ \A r \in Roots :
            /\ originalOrder'[r] = InitialOrder(Len(cards[r]))
            /\ hasContainer[r] /\ IsChangeTo(lastEvent', r, "quiz") =>
                   /\ shuffleIn' = originalOrder[r]
                   /\ originalOrder'[r] = shuffleIn']_vars

\* C18 witness: after a quiz shuffle that displayed three cards in another
\* order and a click handled on that order, originalOrder still lists the
\* cards as at initialization.
C18_Witness ==
    \E r \in Roots : \E k \in CardsOf(r) :
        /\ lastEvent = Click(r, k)
        /\ Len(originalOrder[r]) >= 3
        /\ shuffleIn = originalOrder[r]
        /\ shuffleOut = children[r]
        /\ children[r] # originalOrder[r]
        /\ originalOrder[r] = InitialOrder(Len(cards[r]))

\* Every arrangement of the elements of arr.
PermutationsOf(arr) ==
    {s \in [1 .. Len(arr) -> Range(arr)] : IsPermutationOf(s, arr)}

\* What shuffleArray(arr) can return, over all the draws of Math.random.
ShuffleResults(arr) == {shuffleArray(arr, J) : J \in RandomChoices(Len(arr))}

\* C19: the results shuffleArray can return for originalOrder are all the
\* permutations of originalOrder (originalOrder never changes, so they are
\* enumerated once per page load): the identity is among them, and with two
\* or more cards there are at least two distinct results.
C19_EveryPermutationPossible ==
    \A r \in Roots :
        hasContainer[r] =>
            LET results == ShuffleResults(originalOrder[r])
            IN  /\ lastEvent = Loaded => results = PermutationsOf(originalOrder[r])
                /\ originalOrder[r] \in results
                /\ Len(originalOrder[r]) >= 2 => Cardinality(results) >= 2

\* C19 witness: a quiz change handler has shuffled three cards and the order
\* on display is originalOrder, the identity permutation.
C19_Witness ==
    \E r \in Roots :
        /\ hasContainer[r] /\ IsChangeTo(lastEvent, r, "quiz")
        /\ Len(originalOrder[r]) >= 3
        /\ shuffleIn = originalOrder[r]
        /\ shuffleOut = originalOrder[r]
        /\ children[r] = originalOrder[r]
        /\ Cardinality(ShuffleResults(originalOrder[r])) = 6

\* What the user perceives of card c: answer visibility, aria-expanded, label.
Perceived(c) == <<c.hidden, c.ariaExpanded, c.textContent>>

\* C20: script.js and the flashcard script of part_000, started on the same
\* page and given the same change events, clicks and draws, show after every
\* event the same hidden / aria-expanded / label on every card (the card
\* order, the mode class and the focused element are written by code that is
\* the same in both and reads nothing the two treat differently).
C20_ScriptsAgree ==
    \A r \in Roots :
        /\ DOMAIN twinCards[r] = DOMAIN cards[r]
        /\ \A k \in CardsOf(r) : Perceived(twinCards[r][k]) = Perceived(cards[r][k])

====
